---- MODULE Spec2Model ----
(***************************************************************************)
(* Model of the task substrate, the music cache and the narration steps of *)
(* ai-video-maker:                                                         *)
(*   src/src/tasks/task_queue.py               TaskQueue, VideoTask        *)
(*   src/src/tasks/parallel_batch_processor.py ResourceManager,            *)
(*                                             ParallelBatchProcessor      *)
(*   src/src/audio/music_library.py            MusicLibrary                *)
(*   src/src/audio/music_downloader.py         MusicDownloader             *)
(*   src/src/audio/models.py                   MusicLibraryEntry           *)
(*   src/src/audio/tts_engine.py               TTSEngine.generate_segments *)
(*   src/src/subtitle/subtitle_gen.py          SubtitleGenerator           *)
(*   src/src/main.py                           VideoFactory.generate_video *)
(* Python's None is the string "None"; a result map is named by a string   *)
(* ("empty" is the map {}).                                                *)
(***************************************************************************)
EXTENDS Integers, Sequences, FiniteSets, TLC

\* ---------------------------------------------------------------- bounds
NumTasks == 2
MaxConcurrentChoices == 2
MaxWorkers == 2
MaxRetryTimes == 3
NumThreads == 2
NumTracks == 3
NumCallers == 2
MaxNow == 3
MaxUseCount == 2
MaxCacheAge == 1
MaxCacheFiles == 1
MaxFileSize == 1
MaxTextLen == 4
MaxCharsPerLine == 2
MaxDuration == 2
MaxSentences == 2
MaxSentenceLen == 2

TaskIds == 1..NumTasks

\* threads that call the methods of one TaskQueue
Threads == 1..NumThreads

\* the tracks the remote sources offer, by URL; the coroutines that
\* batch_download gathers
Urls == 1..NumTracks
Callers == 1..NumCallers

\* the characters of a script: a letter, a blank, a sentence mark (one of
\* the marks of the first re.split of _split_into_sentences) and a comma
\* (one of the marks of its second re.split)
Chars == {"a", " ", ".", ","}
Texts == UNION {[1..n -> Chars] : n \in 0..MaxTextLen}
\* what get_audio_duration can return, in tenths of a second
Durations == 0..MaxDuration
\* the arguments of a direct generate_from_segments call: sentences that
\* may carry blanks at both ends, and one duration per audio segment
BoundedSeq(S, n) == UNION {[1..k -> S] : k \in 0..n}
SentenceLists == BoundedSeq(BoundedSeq({"a", " "}, MaxSentenceLen), MaxSentences)
DurationLists == BoundedSeq(Durations, MaxSentences)

\* ------------------------------------------------------- program constants
EstimatedMemoryMB == 512
WorkerMemoryLimitMB == 2048

\* readings of psutil.virtual_memory().used, in MB: one that fits under the
\* limit together with the estimate, one that does not
SystemUsedMB == {1024, 1792}

\* ------------------------------------------------------------- TaskStatus
PENDING == "pending"
PROCESSING == "processing"
COMPLETED == "completed"
FAILED == "failed"
CANCELLED == "cancelled"
TaskStatus == {PENDING, PROCESSING, COMPLETED, FAILED, CANCELLED}
Terminal == {COMPLETED, FAILED, CANCELLED}

None == "None"

\* str(e) of the exceptions a video generator raises ("" is str(Exception()))
ErrorMessages == {"", "E1"}
NoGeneratorMsg == "no video generator"
TimeoutMsg == "task timed out"
NoneResultMsg == "NoneType has no attribute success"

\* Python truthiness of the optional arguments of update_task_status
Truthy(x) == x \notin {None, "", "empty"}

VARIABLES
    tasks,             \* TaskQueue.tasks: task_id -> VideoTask
    config,            \* performance.threading configuration
    active_tasks,      \* ResourceManager._active_tasks
    memory_usage,      \* ResourceManager._memory_usage
    shutdown_event,    \* ParallelBatchProcessor._shutdown_event
    executor_shutdown, \* ThreadPoolExecutor._shutdown
    pc,                \* position of the thread running process_batch
    batch,             \* the list `tasks` of process_batch
    idx,               \* index of the for loop over `tasks`
    fut,               \* state of the future of each task
    fres,              \* value of each future: <<TaskResult>>, << >> is None
    wpc,               \* position of the worker running _process_single_task
    retry_count,       \* retry_count of each worker
    yielded,           \* futures as_completed has yielded
    results,           \* results list: <<TaskResult>> entries, << >> is None
    stats,             \* ParallelBatchProcessor.stats
    admitted,          \* history: tasks can_start_task returned True for
    attempts,          \* history: invocations of video_generator per task
    overran,           \* history: an invocation outlasted task_timeout
    persistence_file,  \* TaskQueue.persistence_file
    file,              \* the persistence file: << >> absent, else <<document>>
    qpc,               \* position of each thread inside a TaskQueue method
    qtask,             \* the task_id argument of that call (0: none)
    qdata,             \* `data` of _save_tasks in that thread
    qcall,             \* history: the method each thread called last
    crashed,           \* the process died and has not been started again
    entries,           \* MusicLibrary.entries, in insertion order
    disk,              \* the files of MusicDownloader.download_dir
    now,               \* datetime.now(), in days
    mpc,               \* position of the caller of the MusicLibrary
    mcontent,          \* `content` of the get_music_for_content call
    mcriteria,         \* `criteria` of the get_music_for_content call
    dpc,               \* position of each download_music coroutine
    drec,              \* `recommendation` of each coroutine
    dsize,             \* downloaded_size of each coroutine, in chunks
    dres,              \* what each coroutine returned: <<path>>, << >> is None
    script_text,       \* `script_text` of the generate_video call
    sentences,         \* `sentences` of generate_video
    npc,               \* the step generate_video is at
    tts_i,             \* `i` of the loop of generate_segments, from 1
    audio_paths,       \* `audio_paths`: the index i in each segment_<i>.mp3
    audio_durations,   \* `audio_durations`, in tenths of a second
    subtitle_segments, \* `subtitle_segments` of generate_video
    nresult,           \* what generate_video returned: <<dict>>, << >> not yet
    shutdown_returned, \* ParallelBatchProcessor.shutdown has returned
    gate_log,          \* history: the last ResourceManager call of each thread
    counter_read       \* the value a `self.stats[...] += 1` has loaded

vars == <<tasks, config, active_tasks, memory_usage, shutdown_event,
          executor_shutdown, pc, batch, idx, fut, fres, wpc, retry_count,
          yielded, results, stats, admitted, attempts, overran,
          persistence_file, file, qpc, qtask, qdata, qcall, crashed,
          entries, disk, now, mpc, mcontent, mcriteria, dpc, drec, dsize, dres,
          script_text, sentences, npc, tts_i, audio_paths, audio_durations,
          subtitle_segments, nresult, shutdown_returned, gate_log,
          counter_read>>

queueVars == <<tasks>>
ledgerVars == <<active_tasks, memory_usage>>
flagVars == <<shutdown_event, executor_shutdown, shutdown_returned>>
mainVars == <<pc, batch, idx, yielded, results, stats>>
workerVars == <<fut, fres, wpc, retry_count>>
historyVars == <<admitted, attempts, overran>>
batchVars == <<config, ledgerVars, flagVars, mainVars, workerVars,
               historyVars>>
storeVars == <<persistence_file, file, qpc, qtask, qdata, qcall, crashed>>
libraryVars == <<entries, now, mpc, mcontent, mcriteria>>
downloadVars == <<dpc, drec, dsize, dres>>
musicVars == <<libraryVars, disk, downloadVars>>
ttsVars == <<script_text, sentences, npc, tts_i, audio_paths, audio_durations,
             subtitle_segments, nresult>>
gateVars == <<gate_log>>
poolVars == <<counter_read>>
otherVars == <<storeVars, musicVars, ttsVars, gateVars, poolVars>>

\* ---------------------------------------------------------------- VideoTask
NewTask ==
    [status |-> PENDING, started_at |-> FALSE, completed_at |-> FALSE,
     error_message |-> None, result |-> None]

\* ---------------------------------------------------------------- TaskQueue
update_task_status(q, task_id, status, error_message, result) ==
    IF task_id \notin DOMAIN q
    THEN q
    ELSE [q EXCEPT ![task_id] =
            [status |-> status,
             started_at |-> IF status = PROCESSING /\ ~@.started_at
                            THEN TRUE ELSE @.started_at,
             completed_at |-> IF status \in Terminal
                              THEN TRUE ELSE @.completed_at,
             error_message |-> IF Truthy(error_message)
                               THEN error_message ELSE @.error_message,
             result |-> IF Truthy(result) THEN result ELSE @.result]]

RECURSIVE ids_with_status(_, _, _)
ids_with_status(q, status, from) ==
    IF from > NumTasks THEN << >>
    ELSE IF from \in DOMAIN q /\ q[from].status = status
         THEN <<from>> \o ids_with_status(q, status, from + 1)
         ELSE ids_with_status(q, status, from + 1)

get_pending_tasks(q) == ids_with_status(q, PENDING, 1)

get_tasks_by_status(q, status) == ids_with_status(q, status, 1)

\* ---------------------------------------------------------- ResourceManager
\* `calls` tells one call of a thread from its next one: it counts them
\* modulo 2
NoGateCall == [call |-> "none", used_mb |-> 0, returned |-> << >>, calls |-> 0]

can_start_task_off_by_one(used_mb) ==
    /\ ~(active_tasks > config.max_concurrent_tasks)
    /\ ~(used_mb + EstimatedMemoryMB > WorkerMemoryLimitMB)

can_start_task(used_mb) ==
    /\ ~(active_tasks >= config.max_concurrent_tasks)
    /\ ~(used_mb + EstimatedMemoryMB > WorkerMemoryLimitMB)

Max(a, b) == IF a >= b THEN a ELSE b

task_completed ==
    /\ active_tasks' = Max(0, active_tasks - 1)
    /\ memory_usage' = Max(0, memory_usage - EstimatedMemoryMB)

\* --------------------------------------------------------------- TaskResult
TaskResult(task_id, success, error_message, result_data) ==
    [task_id |-> task_id, success |-> success,
     error_message |-> error_message, result_data |-> result_data]

\* ------------------------------------------------------------ VideoFactory
\* generate_video catches every exception of its stages and returns a map
Runs == {"succeeds", "bad_input", "stage_error"}
generate_video(run) == IF run = "succeeds" THEN "ok" ELSE "failed_run"

\* generate_from_task: what a call of video_generator(task) can return
ReturnValues == {generate_video(r) : r \in Runs}

\* -------------------------------------------------------------------- Init
Configs ==
    [max_concurrent_tasks : 1..MaxConcurrentChoices,
     max_workers : {MaxWorkers},
     retry_times : 0..MaxRetryTimes,
     retry_on_error : BOOLEAN,
     has_generator : BOOLEAN]

\* a ParallelBatchProcessor that has not been asked for anything yet
BatchInit ==
    /\ active_tasks = 0
    /\ memory_usage = 0
    /\ shutdown_event = FALSE
    /\ executor_shutdown = FALSE
    /\ shutdown_returned = FALSE
    /\ pc = "idle"
    /\ batch = << >>
    /\ idx = 1
    /\ fut = [t \in TaskIds |-> "none"]
    /\ fres = [t \in TaskIds |-> << >>]
    /\ wpc = [t \in TaskIds |-> "idle"]
    /\ retry_count = [t \in TaskIds |-> 0]
    /\ yielded = {}
    /\ results = << >>
    /\ stats = [total_processed |-> 0, successful |-> 0, failed |-> 0,
                peak_memory_usage |-> 0]
    /\ admitted = {}
    /\ attempts = [t \in TaskIds |-> 0]
    /\ overran = {}

\* TaskQueue(persistence_file): no thread is inside a method of the queue
StoreInit(path) ==
    /\ persistence_file = path
    /\ file = << >>
    /\ qpc = [c \in Threads |-> "idle"]
    /\ qtask = [c \in Threads |-> 0]
    /\ qdata = [c \in Threads |-> << >>]
    /\ qcall = [c \in Threads |-> "none"]
    /\ crashed = FALSE

\* ------------------------------------------------------------ MusicLibrary
\* two tracks of one source can carry the same title under different URLs
Title(url) == (url + 1) \div 2

Catalog ==
    {[url |-> u, title |-> Title(u), source |-> "jamendo", genre |-> "ambient",
      mood |-> "calm"] : u \in Urls}

\* MusicSearchCriteria(): the defaults of __post_init__
MusicSearchCriteria ==
    [genres |-> {"ambient", "electronic", "classical", "jazz"},
     moods |-> {"calm", "inspiring", "neutral"}]

\* the criteria a caller passes: none, or a list of genres of its own
Criterias == {MusicSearchCriteria, [MusicSearchCriteria EXCEPT !.genres = {"rock"}]}

\* what a script can be about: a local entry matches a content by the words
\* of its title
Contents == {Title(u) : u \in Urls}

\* _generate_local_path: <md5 of the title, 8 digits>_<source><extension>
_generate_local_path(rec) ==
    [title_hash |-> <<"md5", rec.title>>, source |-> rec.source, ext |-> ".mp3"]

Paths == {_generate_local_path(rec) : rec \in Catalog}

NoRecommendation ==
    [url |-> 0, title |-> 0, source |-> "None", genre |-> "None", mood |-> "None"]

\* MusicLibrary over an empty library file and an empty download directory
MusicInit ==
    /\ entries = << >>
    /\ disk = [p \in Paths |-> "absent"]
    /\ now = 1
    /\ mpc = "idle"
    /\ mcontent = 0
    /\ mcriteria = MusicSearchCriteria
    /\ dpc = [k \in Callers |-> "idle"]
    /\ drec = [k \in Callers |-> NoRecommendation]
    /\ dsize = [k \in Callers |-> 0]
    /\ dres = [k \in Callers |-> << >>]

\* no thread has called the ResourceManager; no worker of a BatchProcessor is
\* inside an update of self.stats
GateInit ==
    /\ gate_log = [c \in Threads |-> NoGateCall]
    /\ counter_read = [t \in TaskIds |-> 0]

\* VideoFactory before any script has been read
NarrationInit ==
    /\ script_text = << >>
    /\ sentences = << >>
    /\ npc = "idle"
    /\ tts_i = 1
    /\ audio_paths = << >>
    /\ audio_durations = << >>
    /\ subtitle_segments = << >>
    /\ nresult = << >>

\* the queue of the batch runs is TaskQueue(), as in
\* examples/simple_parallel_demo.py: without a persistence file
\* _save_tasks returns at once
Init ==
    /\ tasks = [t \in TaskIds |-> NewTask]
    /\ config \in Configs
    /\ BatchInit
    /\ StoreInit(None)
    /\ MusicInit
    /\ NarrationInit
    /\ GateInit

\* ------------------------------------------------ process_batch: dispatch
AllTasks == [i \in 1..NumTasks |-> i]

\* process_batch entry: `tasks` is the argument, or the pending list
StartBatch ==
    /\ pc = "idle"
    /\ \E arg \in {None, "list"} :
         LET list == IF arg = None THEN get_pending_tasks(tasks)
                     ELSE AllTasks
         IN /\ batch' = list
            /\ pc' = IF list = << >> THEN "returned" ELSE "for"
            /\ stats' = IF list = << >> THEN stats
                        ELSE [total_processed |-> 0, successful |-> 0,
                              failed |-> 0, peak_memory_usage |-> 0]
    /\ idx' = 1
    /\ UNCHANGED <<queueVars, config, otherVars, ledgerVars, flagVars, yielded, results,
                   workerVars, historyVars>>

\* top of `for task in tasks`: leave the loop on shutdown or at the end
ForNext ==
    /\ pc = "for"
    /\ pc' = IF idx > Len(batch) \/ shutdown_event THEN "collect" ELSE "gate"
    /\ UNCHANGED <<queueVars, config, otherVars, ledgerVars, flagVars, batch, idx,
                   yielded, results, stats, workerVars, historyVars>>

\* `while not can_start_task()`: one call of the admission gate
Gate ==
    /\ pc = "gate"
    /\ \E used_mb \in SystemUsedMB :
         IF can_start_task(used_mb)
         THEN /\ active_tasks' = active_tasks + 1
              /\ memory_usage' = memory_usage + EstimatedMemoryMB
              /\ admitted' = admitted \cup {batch[idx]}
              /\ pc' = "submit"
         ELSE /\ pc' = "sleep"
              /\ UNCHANGED <<ledgerVars, admitted>>
    /\ UNCHANGED <<queueVars, config, otherVars, flagVars, batch, idx, yielded, results,
                   stats, workerVars, attempts, overran>>

\* time.sleep(0.1), then `if shutdown: break` out of the while loop only
Sleep ==
    /\ pc = "sleep"
    /\ pc' = IF shutdown_event THEN "submit" ELSE "gate"
    /\ UNCHANGED <<queueVars, config, otherVars, ledgerVars, flagVars, batch, idx,
                   yielded, results, stats, workerVars, historyVars>>

\* executor.submit: RuntimeError once the executor has been shut down
Submit ==
    /\ pc = "submit"
    /\ IF executor_shutdown
       THEN /\ pc' = "raised"
            /\ UNCHANGED <<idx, fut>>
       ELSE /\ fut' = [fut EXCEPT ![batch[idx]] = "queued"]
            /\ idx' = idx + 1
            /\ pc' = "for"
    /\ UNCHANGED <<queueVars, config, otherVars, ledgerVars, flagVars, batch, yielded,
                   results, stats, fres, wpc, retry_count, historyVars>>

\* ------------------------------------------------ _process_single_task
\* the loop bound compared with `<=` instead of `<`: one attempt too many
max_retries_off_by_one ==
    IF config.retry_on_error THEN config.retry_times + 1 ELSE 1

max_retries == IF config.retry_on_error THEN config.retry_times ELSE 1

\* a pool thread takes the queued future
WorkerRun(t) ==
    /\ fut[t] = "queued"
    /\ Cardinality({u \in TaskIds : fut[u] = "running"}) < config.max_workers
    /\ fut' = [fut EXCEPT ![t] = "running"]
    /\ wpc' = [wpc EXCEPT ![t] = "start"]
    /\ UNCHANGED <<queueVars, config, otherVars, ledgerVars, flagVars, mainVars, fres,
                   retry_count, historyVars>>

WorkerBegin(t) ==
    /\ wpc[t] = "start"
    /\ tasks' = update_task_status(tasks, t, PROCESSING, None, None)
    /\ retry_count' = [retry_count EXCEPT ![t] = 0]
    /\ wpc' = [wpc EXCEPT ![t] = "while"]
    /\ UNCHANGED <<config, otherVars, ledgerVars, flagVars, mainVars, fut, fres,
                   historyVars>>

\* `except Exception as e` of the retry loop, with error_msg = str(e)
HandleException(t, error_msg) ==
    /\ retry_count' = [retry_count EXCEPT ![t] = @ + 1]
    /\ IF retry_count[t] + 1 >= max_retries
       THEN /\ tasks' = update_task_status(tasks, t, FAILED, error_msg, None)
            /\ fres' = [fres EXCEPT ![t] =
                                <<TaskResult(t, FALSE, error_msg, None)>>]
            /\ fut' = [fut EXCEPT ![t] = "done"]
            /\ wpc' = [wpc EXCEPT ![t] = "done"]
       ELSE /\ wpc' = [wpc EXCEPT ![t] = "while"]
            /\ UNCHANGED <<tasks, fres, fut>>

\* `while retry_count < max_retries`: call the generator, raise ValueError
\* when there is none, or fall out of the loop and return None
WorkerLoop(t) ==
    /\ wpc[t] = "while"
    /\ IF retry_count[t] < max_retries
       THEN IF config.has_generator
            THEN /\ wpc' = [wpc EXCEPT ![t] = "invoking"]
                 /\ attempts' = [attempts EXCEPT ![t] = @ + 1]
                 /\ UNCHANGED <<tasks, fut, fres, retry_count>>
            ELSE /\ HandleException(t, NoGeneratorMsg)
                 /\ UNCHANGED attempts
       ELSE /\ fres' = [fres EXCEPT ![t] = << >>]
            /\ fut' = [fut EXCEPT ![t] = "done"]
            /\ wpc' = [wpc EXCEPT ![t] = "done"]
            /\ UNCHANGED <<tasks, retry_count, attempts>>
    /\ UNCHANGED <<config, otherVars, ledgerVars, flagVars, mainVars, admitted, overran>>

\* video_generator(task) returns `result`
InvokeReturn(t) ==
    /\ wpc[t] = "invoking"
    /\ \E result \in ReturnValues :
         /\ tasks' = update_task_status(tasks, t, COMPLETED, None, result)
         /\ fres' = [fres EXCEPT ![t] = <<TaskResult(t, TRUE, None, result)>>]
    /\ fut' = [fut EXCEPT ![t] = "done"]
    /\ wpc' = [wpc EXCEPT ![t] = "done"]
    /\ UNCHANGED <<config, otherVars, ledgerVars, flagVars, mainVars, retry_count,
                   historyVars>>

\* video_generator(task) raises an exception e
InvokeRaise(t) ==
    /\ wpc[t] = "invoking"
    /\ \E error_msg \in ErrorMessages : HandleException(t, error_msg)
    /\ UNCHANGED <<config, otherVars, ledgerVars, flagVars, mainVars, historyVars>>

\* the running invocation has lasted longer than task_timeout
TimeoutElapses(t) ==
    /\ wpc[t] = "invoking"
    /\ t \notin overran
    /\ overran' = overran \cup {t}
    /\ UNCHANGED <<queueVars, config, otherVars, ledgerVars, flagVars, mainVars,
                   workerVars, admitted, attempts>>

\* ------------------------------------------------- process_batch: collect
\* futures of future_to_task
Submitted == {t \in TaskIds : fut[t] # "none"}

\* as_completed(future_to_task) yields a future once it is done
as_completed == {t \in Submitted : fut[t] = "done"} \ yielded

\* future.result(timeout=task_timeout): the value of a done future;
\* TimeoutError when the future is still not done after task_timeout
future_result(t) ==
    IF fut[t] = "done" THEN [timeout |-> FALSE, value |-> fres[t]]
    ELSE [timeout |-> TRUE, value |-> << >>]

\* one iteration of `for future in as_completed(future_to_task)`; a result
\* of None is appended before `task_result.success` raises AttributeError,
\* and the handler of that exception appends a failure of its own
Collect(t) ==
    /\ pc = "collect"
    /\ t \in as_completed
    /\ yielded' = yielded \cup {t}
    /\ IF shutdown_event
       THEN \* future.cancel(); continue
            UNCHANGED <<queueVars, ledgerVars, results, stats>>
       ELSE LET r == future_result(t)
                appended ==
                    IF r.timeout
                    THEN << <<TaskResult(t, FALSE, TimeoutMsg, None)>> >>
                    ELSE IF r.value = << >>
                         THEN << << >>,
                                 <<TaskResult(t, FALSE, NoneResultMsg, None)>> >>
                         ELSE << r.value >>
                success == appended[Len(appended)][1].success
            IN /\ tasks' = IF r.timeout
                           THEN update_task_status(tasks, t, FAILED,
                                                   TimeoutMsg, None)
                           ELSE tasks
               /\ results' = results \o appended
               /\ stats' =
                    [total_processed |-> stats.total_processed + 1,
                     successful |-> stats.successful +
                                    (IF success THEN 1 ELSE 0),
                     failed |-> stats.failed + (IF success THEN 0 ELSE 1),
                     peak_memory_usage |->
                         Max(stats.peak_memory_usage, memory_usage)]
               /\ task_completed
    /\ UNCHANGED <<config, otherVars, flagVars, pc, batch, idx, workerVars, historyVars>>

\* as_completed is exhausted: build the BatchResult and return
Return ==
    /\ pc = "collect"
    /\ yielded = Submitted
    /\ pc' = "returned"
    /\ UNCHANGED <<queueVars, config, otherVars, ledgerVars, flagVars, batch, idx,
                   yielded, results, stats, workerVars, historyVars>>

\* ---------------------------------------------------------------- shutdown
\* shutdown(): self._shutdown_event.set()
ShutdownSetEvent ==
    /\ ~shutdown_event
    /\ shutdown_event' = TRUE
    /\ UNCHANGED <<queueVars, config, otherVars, ledgerVars, executor_shutdown,
                   shutdown_returned, mainVars,
                   workerVars, historyVars>>

\* shutdown(): self.executor.shutdown(wait=wait)
ShutdownExecutor ==
    /\ shutdown_event
    /\ ~executor_shutdown
    /\ executor_shutdown' = TRUE
    /\ UNCHANGED <<queueVars, config, otherVars, ledgerVars, shutdown_event,
                   shutdown_returned, mainVars,
                   workerVars, historyVars>>

\* --------------------------------------------------- TaskQueue operations
\* VideoTask.to_dict: the status by its value, a timestamp by isoformat()
to_dict(task) ==
    [status |-> task.status,
     started_at |-> IF task.started_at THEN "iso-8601" ELSE None,
     completed_at |-> IF task.completed_at THEN "iso-8601" ELSE None,
     error_message |-> task.error_message,
     result |-> task.result]

\* VideoTask.from_dict: a timestamp is parsed `if data.get(...)`
from_dict(data) ==
    [status |-> data.status,
     started_at |-> Truthy(data.started_at),
     completed_at |-> Truthy(data.completed_at),
     error_message |-> data.error_message,
     result |-> data.result]

\* load_tasks on an existing, well-formed file f
load_tasks(f) == [t \in DOMAIN f[1].data |-> from_dict(f[1].data[t])]

\* add_task: self.tasks[task.task_id] = task
add_task(q, task_id) ==
    [t \in DOMAIN q \cup {task_id} |-> IF t = task_id THEN NewTask ELSE q[t]]

\* clear_completed_tasks: del self.tasks[task_id] for the terminal ones
clear_completed_tasks(q) ==
    [t \in {u \in DOMAIN q : q[u].status \notin Terminal} |-> q[t]]

\* the call of _save_tasks that ends every mutating method returns at once
\* when there is no persistence file
after_mutation == IF persistence_file = None THEN "idle" ELSE "save"

\* the update_task_status calls of a worker (_process_single_task) for a
\* task in the given state: PROCESSING when it starts the task, then
\* COMPLETED with the result or FAILED with the message
WorkerUpdates(status) ==
    IF status = PENDING THEN {<<PROCESSING, None, None>>}
    ELSE IF status = PROCESSING
         THEN {<<COMPLETED, None, "ok">>, <<FAILED, "E1", None>>}
         ELSE {}

AddTask(c, t) ==
    /\ ~crashed
    /\ qpc[c] = "idle"
    /\ tasks' = add_task(tasks, t)
    /\ qpc' = [qpc EXCEPT ![c] = after_mutation]
    /\ qcall' = [qcall EXCEPT ![c] = "add_task"]
    /\ UNCHANGED <<persistence_file, file, qtask, qdata, crashed, batchVars,
                   musicVars, ttsVars,
                   gateVars, poolVars>>

\* update_task_status up to its call of _save_tasks
UpdateTaskStatus(c, t) ==
    /\ ~crashed
    /\ qpc[c] = "idle"
    /\ t \in DOMAIN tasks
    /\ \E call \in WorkerUpdates(tasks[t].status) :
         tasks' = update_task_status(tasks, t, call[1], call[2], call[3])
    /\ qpc' = [qpc EXCEPT ![c] = after_mutation]
    /\ qcall' = [qcall EXCEPT ![c] = "update_task_status"]
    /\ UNCHANGED <<persistence_file, file, qtask, qdata, crashed, batchVars,
                   musicVars, ttsVars,
                   gateVars, poolVars>>

\* cancel_task: the test of the status (a task that is missing or not
\* pending returns False and changes nothing)
CancelCheck(c, t) ==
    /\ ~crashed
    /\ qpc[c] = "idle"
    /\ t \in DOMAIN tasks
    /\ tasks[t].status = PENDING
    /\ qpc' = [qpc EXCEPT ![c] = "cancel"]
    /\ qtask' = [qtask EXCEPT ![c] = t]
    /\ qcall' = [qcall EXCEPT ![c] = "cancel_task"]
    /\ UNCHANGED <<tasks, persistence_file, file, qdata, crashed, batchVars,
                   musicVars, ttsVars,
                   gateVars, poolVars>>

\* cancel_task: self.update_task_status(task_id, TaskStatus.CANCELLED)
CancelUpdate(c) ==
    /\ ~crashed
    /\ qpc[c] = "cancel"
    /\ tasks' = update_task_status(tasks, qtask[c], CANCELLED, None, None)
    /\ qpc' = [qpc EXCEPT ![c] = after_mutation]
    /\ qtask' = [qtask EXCEPT ![c] = 0]
    /\ UNCHANGED <<qcall, persistence_file, file, qdata, crashed, batchVars,
                   musicVars, ttsVars,
                   gateVars, poolVars>>

ClearCompleted(c) ==
    /\ ~crashed
    /\ qpc[c] = "idle"
    /\ tasks' = clear_completed_tasks(tasks)
    /\ qpc' = [qpc EXCEPT ![c] = after_mutation]
    /\ qcall' = [qcall EXCEPT ![c] = "clear_completed_tasks"]
    /\ UNCHANGED <<persistence_file, file, qtask, qdata, crashed, batchVars,
                   musicVars, ttsVars,
                   gateVars, poolVars>>

\* _save_tasks: data = {task_id: task.to_dict() ...}
SaveSnapshot(c) ==
    /\ ~crashed
    /\ qpc[c] = "save"
    /\ qdata' = [qdata EXCEPT ![c] = [t \in DOMAIN tasks |-> to_dict(tasks[t])]]
    /\ qpc' = [qpc EXCEPT ![c] = "open"]
    /\ UNCHANGED <<qcall, tasks, persistence_file, file, qtask, crashed, batchVars,
                   musicVars, ttsVars,
                   gateVars, poolVars>>

\* _save_tasks: open(self.persistence_file, 'w') truncates the file
SaveOpen(c) ==
    /\ ~crashed
    /\ qpc[c] = "open"
    /\ file' = <<[complete |-> FALSE, data |-> << >>]>>
    /\ qpc' = [qpc EXCEPT ![c] = "dump"]
    /\ UNCHANGED <<qcall, tasks, persistence_file, qtask, qdata, crashed, batchVars,
                   musicVars, ttsVars,
                   gateVars, poolVars>>

\* _save_tasks: json.dump(data, f) and the close of the file
SaveDump(c) ==
    /\ ~crashed
    /\ qpc[c] = "dump"
    /\ file' = <<[complete |-> TRUE, data |-> qdata[c]]>>
    /\ qpc' = [qpc EXCEPT ![c] = "idle"]
    /\ qdata' = [qdata EXCEPT ![c] = << >>]
    /\ UNCHANGED <<qcall, tasks, persistence_file, qtask, crashed, batchVars,
                   musicVars, ttsVars,
                   gateVars, poolVars>>

\* the process dies: its threads and its memory are gone, the file stays
Crash ==
    /\ ~crashed
    /\ crashed' = TRUE
    /\ tasks' = << >>
    /\ qpc' = [c \in Threads |-> "idle"]
    /\ qtask' = [c \in Threads |-> 0]
    /\ qdata' = [c \in Threads |-> << >>]
    /\ qcall' = [c \in Threads |-> "none"]
    /\ UNCHANGED <<persistence_file, file, batchVars, musicVars, ttsVars,
                   gateVars, poolVars>>

\* TaskQueue.__init__ of the next process: load_tasks when the file exists;
\* json.load raises on a file that is not a whole document
Restart ==
    /\ crashed
    /\ IF file = << >> THEN TRUE ELSE file[1].complete
    /\ tasks' = IF file = << >> THEN << >> ELSE load_tasks(file)
    /\ crashed' = FALSE
    /\ UNCHANGED <<qcall, persistence_file, file, qpc, qtask, qdata, batchVars,
                   musicVars, ttsVars,
                   gateVars, poolVars>>

\* the thread of the batch runs that calls cancel_task
Canceller == 1

\* -------------------------------------------------------------------- Next
Next ==
    \/ StartBatch
    \/ ForNext
    \/ Gate
    \/ Sleep
    \/ Submit
    \/ \E t \in TaskIds : WorkerRun(t)
    \/ \E t \in TaskIds : WorkerBegin(t)
    \/ \E t \in TaskIds : WorkerLoop(t)
    \/ \E t \in TaskIds : InvokeReturn(t)
    \/ \E t \in TaskIds : InvokeRaise(t)
    \/ \E t \in TaskIds : TimeoutElapses(t)
    \/ \E t \in TaskIds : Collect(t)
    \/ Return
    \/ ShutdownSetEvent
    \/ ShutdownExecutor
    \/ \E t \in TaskIds : CancelCheck(Canceller, t)
    \/ CancelUpdate(Canceller)

Spec == Init /\ [][Next]_vars

\* The runs of the dispatcher and of the workers alone, without the clock
\* and without a caller of cancel_task: TimeoutElapses changes only the
\* history variable overran, and the steps of cancel_task change only the
\* status of a task and the position of the canceller, none of which an
\* action of a worker reads.
UntimedNext ==
    \/ StartBatch
    \/ ForNext
    \/ Gate
    \/ Sleep
    \/ Submit
    \/ \E t \in TaskIds : WorkerRun(t)
    \/ \E t \in TaskIds : WorkerBegin(t)
    \/ \E t \in TaskIds : WorkerLoop(t)
    \/ \E t \in TaskIds : InvokeReturn(t)
    \/ \E t \in TaskIds : InvokeRaise(t)
    \/ \E t \in TaskIds : Collect(t)
    \/ Return
    \/ ShutdownSetEvent
    \/ ShutdownExecutor

UntimedSpec == Init /\ [][UntimedNext]_vars

\* ------------------------------------------------------------------------
\* A run in the conditions of C1: the configuration of
\* examples/simple_parallel_demo.py (a generator is set, retries are on with
\* the default retry_times), shutdown() is never called, every invocation of
\* the generator ends, and an admission that is possible infinitely often is
\* eventually granted (the memory bound is satisfiable).
DemoInit ==
    /\ Init
    /\ config.has_generator
    /\ config.retry_on_error
    /\ config.retry_times = MaxRetryTimes

GateAdmits == Gate /\ pc' = "submit"

DemoNext ==
    \/ StartBatch
    \/ ForNext
    \/ Gate
    \/ Sleep
    \/ Submit
    \/ \E t \in TaskIds : WorkerRun(t)
    \/ \E t \in TaskIds : WorkerBegin(t)
    \/ \E t \in TaskIds : WorkerLoop(t)
    \/ \E t \in TaskIds : InvokeReturn(t)
    \/ \E t \in TaskIds : InvokeRaise(t)
    \/ \E t \in TaskIds : Collect(t)
    \/ Return

DemoFairness ==
    /\ WF_vars(StartBatch)
    /\ WF_vars(ForNext)
    /\ WF_vars(Gate)
    /\ SF_vars(GateAdmits)
    /\ WF_vars(Sleep)
    /\ WF_vars(Submit)
    /\ \A t \in TaskIds :
         /\ WF_vars(WorkerRun(t))
         /\ WF_vars(WorkerBegin(t))
         /\ WF_vars(WorkerLoop(t))
         /\ WF_vars(InvokeReturn(t) \/ InvokeRaise(t))
         /\ WF_vars(Collect(t))
    /\ WF_vars(Return)

FairSpec == DemoInit /\ [][DemoNext]_vars /\ DemoFairness

\* ------------------------------------------------------------------------
\* Threads calling the methods of a TaskQueue that has a persistence file
\* (main.py: TaskQueue(persistence_file="output/task_queue.json")).
QueueConfig ==
    [max_concurrent_tasks |-> 1, max_workers |-> MaxWorkers, retry_times |-> 0,
     retry_on_error |-> FALSE, has_generator |-> FALSE]

QueueInit ==
    /\ tasks = << >>
    /\ config = QueueConfig
    /\ BatchInit
    /\ StoreInit("output/task_queue.json")
    /\ MusicInit
    /\ NarrationInit
    /\ GateInit

QueueNext ==
    \/ \E c \in Threads, t \in TaskIds : AddTask(c, t)
    \/ \E c \in Threads, t \in TaskIds : UpdateTaskStatus(c, t)
    \/ \E c \in Threads, t \in TaskIds : CancelCheck(c, t)
    \/ \E c \in Threads : CancelUpdate(c)
    \/ \E c \in Threads : ClearCompleted(c)
    \/ \E c \in Threads : SaveSnapshot(c)
    \/ \E c \in Threads : SaveOpen(c)
    \/ \E c \in Threads : SaveDump(c)
    \/ Crash
    \/ Restart

QueueSpec == QueueInit /\ [][QueueNext]_vars

\* ------------------------------------------------------------------------
\* MusicLibraryEntry; a last_used of 0 is None (datetime.min in a sort key)
NewEntry(rec, local_path, t) ==
    [url |-> rec.url, title |-> rec.title, genre |-> rec.genre,
     mood |-> rec.mood, local_path |-> local_path, downloaded_at |-> t,
     last_used |-> 0, use_count |-> 0]

mark_as_used(entry, t) ==
    [entry EXCEPT !.last_used = t, !.use_count = @ + 1]

is_expired(entry, t) ==
    LET since == IF entry.last_used = 0 THEN entry.downloaded_at
                 ELSE entry.last_used
    IN (t - since) > MaxCacheAge

\* self.entries[url] = entry: a key the dict has keeps its place
SetEntry(es, entry) ==
    IF \E i \in DOMAIN es : es[i].url = entry.url
    THEN [i \in DOMAIN es |-> IF es[i].url = entry.url THEN entry ELSE es[i]]
    ELSE Append(es, entry)

\* match_score of _find_in_library, in tenths: 4 for a word of the content
\* in the title, 3 for the genre, 3 for the mood
match_score(entry, content, criteria) ==
    (IF entry.title = content THEN 4 ELSE 0)
    + (IF entry.genre \in criteria.genres THEN 3 ELSE 0)
    + (IF entry.mood \in criteria.moods THEN 3 ELSE 0)

\* _find_in_library: the index of the match, 0 for None. The candidates are
\* the entries that have not expired and score over 0.3 (every track is safe
\* to use and the criteria set no duration); they are sorted by
\* (score, use_count), largest first, and the sort is stable.
_find_in_library(es, content, criteria, t) ==
    LET candidates == {i \in DOMAIN es :
                         /\ ~is_expired(es[i], t)
                         /\ match_score(es[i], content, criteria) > 3}
        Before(i, j) ==
            LET si == match_score(es[i], content, criteria)
                sj == match_score(es[j], content, criteria)
            IN \/ si > sj
               \/ si = sj /\ es[i].use_count > es[j].use_count
               \/ si = sj /\ es[i].use_count = es[j].use_count /\ i <= j
    IN IF candidates = {} THEN 0
       ELSE CHOOSE i \in candidates : \A j \in candidates : Before(i, j)

cleanup_expired_entries(es, t) ==
    SelectSeq(es, LAMBDA entry : ~is_expired(entry, t))

cleanup_unused_files(d, es) ==
    [p \in Paths |->
        IF \E i \in DOMAIN es : es[i].local_path = p THEN d[p] ELSE "absent"]

\* the key of entries_list.sort in optimize_cache
KeyLess(a, b) ==
    \/ a.use_count < b.use_count
    \/ a.use_count = b.use_count /\ a.last_used < b.last_used

\* the place of es[i] in the sorted list, from 0; list.sort is stable
SortedIndex(es, i) ==
    Cardinality({j \in DOMAIN es :
                    \/ KeyLess(es[j], es[i])
                    \/ ~KeyLess(es[i], es[j]) /\ j < i})

optimize_cache(es, d, t) ==
    LET kept == cleanup_expired_entries(es, t)
        swept == cleanup_unused_files(d, kept)
        to_remove == Len(kept) - MaxCacheFiles
        removed == IF Len(kept) > MaxCacheFiles
                   THEN {i \in DOMAIN kept : SortedIndex(kept, i) < to_remove}
                   ELSE {}
    IN [entries |-> SelectSeq(kept, LAMBDA entry :
                       \A i \in removed : kept[i].url # entry.url),
        disk |-> [p \in Paths |->
                    IF \E i \in removed : kept[i].local_path = p
                    THEN "absent" ELSE swept[p]]]

\* ---------------------------------------------------------- download_music
IdleDownloads ==
    /\ dpc' = [k \in Callers |-> "idle"]
    /\ drec' = [k \in Callers |-> NoRecommendation]
    /\ dsize' = [k \in Callers |-> 0]
    /\ dres' = [k \in Callers |-> << >>]

\* download_music up to `await self._download_file`: a file that exists at
\* the local path is returned as it is
DownloadStart(k) ==
    /\ dpc[k] = "start"
    /\ LET local_path == _generate_local_path(drec[k])
       IN IF disk[local_path] # "absent"
          THEN /\ dres' = [dres EXCEPT ![k] = <<local_path>>]
               /\ dpc' = [dpc EXCEPT ![k] = "done"]
          ELSE /\ dpc' = [dpc EXCEPT ![k] = "get"]
               /\ UNCHANGED dres
    /\ UNCHANGED <<tasks, batchVars, storeVars, libraryVars, disk, drec, dsize,
                   ttsVars,
                   gateVars, poolVars>>

\* _download_file: the response arrives. It is refused (status other than
\* 200, Content-Length over max_file_size) or the request raised, or the
\* local path is opened for writing
DownloadResponse(k) ==
    /\ dpc[k] = "get"
    /\ \E accepted \in BOOLEAN :
         IF accepted
         THEN /\ disk' = [disk EXCEPT ![_generate_local_path(drec[k])] =
                                          "partial"]
              /\ dpc' = [dpc EXCEPT ![k] = "stream"]
              /\ UNCHANGED dres
         ELSE /\ dpc' = [dpc EXCEPT ![k] = "done"]
              /\ dres' = [dres EXCEPT ![k] = << >>]
              /\ UNCHANGED disk
    /\ UNCHANGED <<tasks, batchVars, storeVars, libraryVars, drec, dsize,
                   ttsVars,
                   gateVars, poolVars>>

\* _download_file: one chunk is written; over max_file_size the file is
\* unlinked and the download fails
DownloadChunk(k) ==
    /\ dpc[k] = "stream"
    /\ dsize' = [dsize EXCEPT ![k] = @ + 1]
    /\ IF dsize[k] + 1 > MaxFileSize
       THEN /\ disk' = [disk EXCEPT ![_generate_local_path(drec[k])] = "absent"]
            /\ dpc' = [dpc EXCEPT ![k] = "done"]
            /\ dres' = [dres EXCEPT ![k] = << >>]
       ELSE UNCHANGED <<disk, dpc, dres>>
    /\ UNCHANGED <<tasks, batchVars, storeVars, libraryVars, drec, ttsVars,
                   gateVars, poolVars>>

\* _download_file: the stream raises (timeout, connection lost)
DownloadAbort(k) ==
    /\ dpc[k] = "stream"
    /\ dpc' = [dpc EXCEPT ![k] = "done"]
    /\ dres' = [dres EXCEPT ![k] = << >>]
    /\ UNCHANGED <<tasks, batchVars, storeVars, libraryVars, disk, drec, dsize,
                   ttsVars,
                   gateVars, poolVars>>

\* _download_file returns True at the end of the stream; download_music
\* stats the file (it raises when the file is gone), validates it (an empty
\* file is unlinked) and returns the path. The file is whole unless another
\* coroutine is still writing to the same path.
DownloadEnd(k) ==
    /\ dpc[k] = "stream"
    /\ dpc' = [dpc EXCEPT ![k] = "done"]
    /\ LET local_path == _generate_local_path(drec[k])
           shared == \E j \in Callers \ {k} :
                        /\ dpc[j] = "stream"
                        /\ _generate_local_path(drec[j]) = local_path
       IN IF disk[local_path] = "absent"
          THEN /\ dres' = [dres EXCEPT ![k] = << >>]
               /\ UNCHANGED disk
          ELSE IF dsize[k] = 0
          THEN /\ dres' = [dres EXCEPT ![k] = << >>]
               /\ disk' = [disk EXCEPT ![local_path] = "absent"]
          ELSE /\ dres' = [dres EXCEPT ![k] = <<local_path>>]
               /\ disk' = [disk EXCEPT ![local_path] =
                              IF shared THEN "partial" ELSE "complete"]
    /\ UNCHANGED <<tasks, batchVars, storeVars, libraryVars, drec, dsize,
                   ttsVars,
                   gateVars, poolVars>>

\* ------------------------------------------------------------ MusicLibrary
GetMusicCall(content, criteria) ==
    /\ mpc = "idle"
    /\ \A i \in DOMAIN entries : entries[i].use_count < MaxUseCount
    /\ mpc' = "lookup"
    /\ mcontent' = content
    /\ mcriteria' = criteria
    /\ UNCHANGED <<tasks, batchVars, storeVars, entries, now, disk,
                   downloadVars, ttsVars,
                   gateVars, poolVars>>

\* get_music_for_content: a local match is marked used and returned;
\* without one the recommender is asked, and its best recommendation, if it
\* has any, is handed to _download_and_cache
GetMusicLookup ==
    /\ mpc = "lookup"
    /\ LET local_match == _find_in_library(entries, mcontent, mcriteria, now)
       IN IF local_match # 0
          THEN /\ entries' = [entries EXCEPT ![local_match] =
                                 mark_as_used(@, now)]
               /\ mpc' = "idle"
               /\ mcontent' = 0
               /\ mcriteria' = MusicSearchCriteria
               /\ UNCHANGED downloadVars
          ELSE \E recommendations \in {<< >>} \cup {<<rec>> : rec \in Catalog} :
                 IF recommendations = << >>
                 THEN /\ mpc' = "idle"
                      /\ mcontent' = 0
                      /\ mcriteria' = MusicSearchCriteria
                      /\ UNCHANGED <<entries, downloadVars>>
                 ELSE /\ mpc' = "caching"
                      /\ dpc' = [dpc EXCEPT ![1] = "start"]
                      /\ drec' = [drec EXCEPT ![1] = recommendations[1]]
                      /\ UNCHANGED <<entries, mcontent, mcriteria, dsize, dres>>
    /\ UNCHANGED <<tasks, batchVars, storeVars, now, disk, ttsVars,
                   gateVars, poolVars>>

\* _download_and_cache after download_music, and the return of
\* get_music_for_content
GetMusicReturn ==
    /\ mpc = "caching"
    /\ dpc[1] = "done"
    /\ IF dres[1] # << >>
       THEN entries' = SetEntry(entries, NewEntry(drec[1], dres[1][1], now))
       ELSE UNCHANGED entries
    /\ mpc' = "idle"
    /\ mcontent' = 0
    /\ mcriteria' = MusicSearchCriteria
    /\ IdleDownloads
    /\ UNCHANGED <<tasks, batchVars, storeVars, now, disk, ttsVars,
                   gateVars, poolVars>>

\* preload_music: batch_download gathers one download_music per
\* recommendation
PreloadCall ==
    /\ mpc = "idle"
    /\ mpc' = "preloading"
    /\ drec' \in [Callers -> Catalog]
    /\ dpc' = [k \in Callers |-> "start"]
    /\ UNCHANGED <<tasks, batchVars, storeVars, entries, now, mcontent,
                   mcriteria,                   disk, dsize, dres, ttsVars,
                   gateVars, poolVars>>

\* batch_download: results[url] = local_path, in the order of the list
batch_results(url) ==
    LET last == CHOOSE k \in Callers :
                   /\ drec[k].url = url
                   /\ \A j \in Callers : drec[j].url = url => j <= k
    IN dres[last]

RECURSIVE preload_entries(_, _)
preload_entries(es, k) ==
    IF k > NumCallers THEN es
    ELSE LET local_path == batch_results(drec[k].url)
         IN IF local_path # << >>
            THEN preload_entries(
                     SetEntry(es, NewEntry(drec[k], local_path[1], now)), k + 1)
            ELSE preload_entries(es, k + 1)

\* preload_music after batch_download has returned
PreloadReturn ==
    /\ mpc = "preloading"
    /\ \A k \in Callers : dpc[k] = "done"
    /\ entries' = preload_entries(entries, 1)
    /\ mpc' = "idle"
    /\ IdleDownloads
    /\ UNCHANGED <<tasks, batchVars, storeVars, now, mcontent, mcriteria, disk,
                   ttsVars,
                   gateVars, poolVars>>

OptimizeCache ==
    /\ mpc = "idle"
    /\ LET optimized == optimize_cache(entries, disk, now)
       IN /\ entries' = optimized.entries
          /\ disk' = optimized.disk
    /\ UNCHANGED <<tasks, batchVars, storeVars, now, mpc, mcontent,
                   mcriteria,                   downloadVars, ttsVars,
                   gateVars, poolVars>>

\* a day passes between two calls of the library
Tick ==
    /\ mpc = "idle"
    /\ now < MaxNow
    /\ now' = now + 1
    /\ UNCHANGED <<tasks, batchVars, storeVars, entries, mpc, mcontent,
                   mcriteria,                   disk, downloadVars, ttsVars,
                   gateVars, poolVars>>

MusicSpecInit ==
    /\ tasks = << >>
    /\ config = QueueConfig
    /\ BatchInit
    /\ StoreInit(None)
    /\ MusicInit
    /\ NarrationInit
    /\ GateInit

\* one caller at a time asks the library for music and tidies the cache
LibraryNext ==
    \/ \E content \in Contents, criteria \in Criterias :
          GetMusicCall(content, criteria)
    \/ GetMusicLookup
    \/ GetMusicReturn
    \/ OptimizeCache
    \/ Tick
    \/ DownloadStart(1)
    \/ DownloadResponse(1)
    \/ DownloadChunk(1)
    \/ DownloadAbort(1)
    \/ DownloadEnd(1)

LibrarySpec == MusicSpecInit /\ [][LibraryNext]_vars

\* cleanup_unused_files called by another user of the library (a second
\* coroutine or thread) while a download of this one is under way
CleanupUnusedFiles ==
    /\ mpc = "caching"
    /\ disk' = cleanup_unused_files(disk, entries)
    /\ UNCHANGED <<tasks, batchVars, storeVars, libraryVars, downloadVars,
                   ttsVars, gateVars, poolVars>>

CleanupNext == LibraryNext \/ CleanupUnusedFiles

CleanupSpec == MusicSpecInit /\ [][CleanupNext]_vars

\* preload_music: the coroutines of batch_download run concurrently
PreloadNext ==
    \/ PreloadCall
    \/ PreloadReturn
    \/ OptimizeCache
    \/ \E k \in Callers : DownloadStart(k)
    \/ \E k \in Callers : DownloadResponse(k)
    \/ \E k \in Callers : DownloadChunk(k)
    \/ \E k \in Callers : DownloadAbort(k)
    \/ \E k \in Callers : DownloadEnd(k)

PreloadSpec == MusicSpecInit /\ [][PreloadNext]_vars

\* ------------------------------------------------------------------------
\* generate_video, steps 3 to 7: speech per sentence, subtitles, video
RECURSIVE strip(_)
strip(s) ==
    IF s = << >> THEN s
    ELSE IF Head(s) = " " THEN strip(Tail(s))
    ELSE IF s[Len(s)] = " " THEN strip(SubSeq(s, 1, Len(s) - 1))
    ELSE s

\* re.split(r'[<mark>]', s): the pieces between the marks, empty ones too
RECURSIVE re_split(_, _)
re_split(mark, s) ==
    IF \A i \in DOMAIN s : s[i] # mark THEN <<s>>
    ELSE LET first == CHOOSE i \in DOMAIN s :
                         s[i] = mark /\ \A j \in 1..(i - 1) : s[j] # mark
         IN <<SubSeq(s, 1, first - 1)>>
            \o re_split(mark, SubSeq(s, first + 1, Len(s)))

\* [s.strip() for s in pieces if s.strip()]
RECURSIVE stripped(_)
stripped(pieces) ==
    IF pieces = << >> THEN << >>
    ELSE IF strip(Head(pieces)) = << >> THEN stripped(Tail(pieces))
    ELSE <<strip(Head(pieces))>> \o stripped(Tail(pieces))

RECURSIVE split_long(_)
split_long(ss) ==
    IF ss = << >> THEN << >>
    ELSE (IF Len(Head(ss)) > MaxCharsPerLine
          THEN stripped(re_split(",", Head(ss)))
          ELSE <<Head(ss)>>) \o split_long(Tail(ss))

_split_into_sentences(text) == split_long(stripped(re_split(".", text)))

\* generate_from_segments past its length check: one segment per sentence,
\* end to end from 0; a duration of 0 or less becomes 0.1 s
RECURSIVE segments_from(_, _, _, _)
segments_from(ss, ds, i, current_time) ==
    IF i > Len(ss) THEN << >>
    ELSE LET duration == IF ds[i] <= 0 THEN 1 ELSE ds[i]
         IN <<[text |-> strip(ss[i]), start_time |-> current_time,
               end_time |-> current_time + duration, index |-> i]>>
            \o segments_from(ss, ds, i + 1, current_time + duration)

generate_from_segments_from_one(ss, ds) ==
    IF Len(ss) # Len(ds) THEN << >>
    ELSE <<segments_from(ss, ds, 1, 1)>>

\* << >> stands for the ValueError of the length check
generate_from_segments(ss, ds) ==
    IF Len(ss) # Len(ds) THEN << >>
    ELSE <<segments_from(ss, ds, 1, 0)>>

\* what generate_video returns from its except clause
Failure(error) == <<[success |-> FALSE, error |-> error]>>

\* generate_video(script_text=text), up to the sentences of the script
GenerateVideoCall(text) ==
    /\ npc = "idle"
    /\ script_text' = text
    /\ sentences' = _split_into_sentences(text)
    /\ npc' = "tts"
    /\ UNCHANGED <<tasks, batchVars, storeVars, musicVars, tts_i, audio_paths,
                   audio_durations, subtitle_segments, nresult,
                   gateVars, poolVars>>

\* generate_segments: one turn of the loop. An empty sentence is skipped;
\* text_to_speech or get_audio_duration raises and the sentence is skipped;
\* or the segment and its duration are appended.
TextToSpeech ==
    /\ npc = "tts"
    /\ tts_i <= Len(sentences)
    /\ tts_i' = tts_i + 1
    /\ IF strip(sentences[tts_i]) = << >>
       THEN UNCHANGED <<audio_paths, audio_durations>>
       ELSE \E raised \in BOOLEAN, duration \in Durations :
              IF raised
              THEN /\ duration = 0
                   /\ UNCHANGED <<audio_paths, audio_durations>>
              ELSE /\ audio_paths' = Append(audio_paths, tts_i)
                   /\ audio_durations' = Append(audio_durations, duration)
    /\ UNCHANGED <<tasks, batchVars, storeVars, musicVars, script_text,
                   sentences, npc, subtitle_segments, nresult,
                   gateVars, poolVars>>

\* generate_segments returns; concatenate_audio_files raises ValueError on
\* an empty list
ConcatenateAudio ==
    /\ npc = "tts"
    /\ tts_i > Len(sentences)
    /\ IF audio_paths = << >>
       THEN /\ npc' = "done"
            /\ nresult' = Failure("no audio")
       ELSE /\ npc' = "subtitles"
            /\ UNCHANGED nresult
    /\ UNCHANGED <<tasks, batchVars, storeVars, musicVars, script_text,
                   sentences, tts_i, audio_paths, audio_durations,
                   subtitle_segments,
                   gateVars, poolVars>>

\* step 5: generate_from_segments(sentences, audio_durations)
GenerateSubtitles ==
    /\ npc = "subtitles"
    /\ LET segments == generate_from_segments(sentences, audio_durations)
       IN IF segments = << >>
          THEN /\ npc' = "done"
               /\ nresult' = Failure("ValueError")
               /\ UNCHANGED subtitle_segments
          ELSE /\ npc' = "video"
               /\ subtitle_segments' = segments[1]
               /\ UNCHANGED nresult
    /\ UNCHANGED <<tasks, batchVars, storeVars, musicVars, script_text,
                   sentences, tts_i, audio_paths, audio_durations,
                   gateVars, poolVars>>

\* steps 6 and 7: the video is composed and written, or one of them raises
CreateVideo ==
    /\ npc = "video"
    /\ npc' = "done"
    /\ \E rendered \in BOOLEAN :
         nresult' = IF rendered THEN <<[success |-> TRUE, error |-> "None"]>>
                    ELSE Failure("render")
    /\ UNCHANGED <<tasks, batchVars, storeVars, musicVars, script_text,
                   sentences, tts_i, audio_paths, audio_durations,
                   subtitle_segments,
                   gateVars, poolVars>>

NarrationNext ==
    \/ \E text \in Texts : GenerateVideoCall(text)
    \/ TextToSpeech
    \/ ConcatenateAudio
    \/ GenerateSubtitles
    \/ CreateVideo

NarrationSpec == MusicSpecInit /\ [][NarrationNext]_vars

\* SubtitleGenerator.generate_from_segments(sentences, audio_durations)
\* called on its own, as tests/debug_subtitle_timing.py does
GenerateFromSegmentsCall(ss, ds) ==
    /\ npc = "idle"
    /\ sentences' = ss
    /\ audio_durations' = ds
    /\ npc' = "subtitles"
    /\ UNCHANGED <<tasks, batchVars, storeVars, musicVars, script_text, tts_i,
                   audio_paths, subtitle_segments, nresult,
                   gateVars, poolVars>>

SubtitleNext ==
    \/ \E ss \in SentenceLists, ds \in DurationLists :
          GenerateFromSegmentsCall(ss, ds)
    \/ GenerateSubtitles

SubtitleSpec == MusicSpecInit /\ [][SubtitleNext]_vars

\* ------------------------------------------------------------------------
\* Threads calling the two methods of one ResourceManager; each call holds
\* self._lock from its first statement to its return
CanStartTask(c) ==
    /\ \E used_mb \in SystemUsedMB :
         IF can_start_task(used_mb)
         THEN /\ active_tasks' = active_tasks + 1
              /\ memory_usage' = memory_usage + EstimatedMemoryMB
              /\ gate_log' = [gate_log EXCEPT ![c] =
                    [call |-> "can_start_task", used_mb |-> used_mb,
                     returned |-> <<TRUE>>,
                     calls |-> (gate_log[c].calls + 1) % 2]]
         ELSE /\ UNCHANGED ledgerVars
              /\ gate_log' = [gate_log EXCEPT ![c] =
                    [call |-> "can_start_task", used_mb |-> used_mb,
                     returned |-> <<FALSE>>,
                     calls |-> (gate_log[c].calls + 1) % 2]]
    /\ UNCHANGED <<tasks, config, flagVars, mainVars, workerVars, historyVars,
                   storeVars, musicVars, ttsVars, poolVars>>

TaskCompleted(c) ==
    /\ task_completed
    /\ gate_log' = [gate_log EXCEPT ![c] =
          [call |-> "task_completed", used_mb |-> 0, returned |-> << >>,
           calls |-> (gate_log[c].calls + 1) % 2]]
    /\ UNCHANGED <<tasks, config, flagVars, mainVars, workerVars, historyVars,
                   storeVars, musicVars, ttsVars, poolVars>>

GateNext ==
    \/ \E c \in Threads : CanStartTask(c)
    \/ \E c \in Threads : TaskCompleted(c)

GateSpec == Init /\ [][GateNext]_vars

\* ------------------------------------------------------------------------
\* BatchProcessor: process_all_pending runs process_single_task for every
\* pending task on a ThreadPoolExecutor(max_workers).  `stats` holds the
\* counters of self.stats (the times are left out); no lock guards them.

\* pending_tasks = get_pending_tasks(); return self.stats when there is
\* none; otherwise reset the counters and submit every task
ProcessAllPending ==
    /\ pc = "idle"
    /\ LET pending_tasks == get_pending_tasks(tasks)
       IN IF pending_tasks = << >>
          THEN /\ pc' = "returned"
               /\ UNCHANGED <<batch, stats, fut>>
          ELSE /\ batch' = pending_tasks
               /\ stats' = [stats EXCEPT !.total_processed = 0,
                                         !.successful = 0, !.failed = 0]
               /\ fut' = [t \in TaskIds |->
                            IF \E i \in DOMAIN pending_tasks :
                                   pending_tasks[i] = t
                            THEN "queued" ELSE fut[t]]
               /\ pc' = "collect"
    /\ UNCHANGED <<queueVars, config, otherVars, ledgerVars, flagVars, idx,
                   yielded, results, fres, wpc, retry_count, historyVars>>

\* `except Exception as e` of process_single_task: at the last attempt the
\* task is marked Failed and self.stats['failed'] += 1 follows
PoolHandleException(t, error_msg) ==
    /\ retry_count' = [retry_count EXCEPT ![t] = @ + 1]
    /\ IF retry_count[t] + 1 >= max_retries
       THEN /\ tasks' = update_task_status(tasks, t, FAILED, error_msg, None)
            /\ wpc' = [wpc EXCEPT ![t] = "load_failed"]
       ELSE /\ wpc' = [wpc EXCEPT ![t] = "while"]
            /\ UNCHANGED tasks

\* `while retry_count < max_retries`: call the generator, raise ValueError
\* when there is none, or leave the loop and `return False`
PoolLoop(t) ==
    /\ wpc[t] = "while"
    /\ IF retry_count[t] < max_retries
       THEN IF config.has_generator
            THEN /\ wpc' = [wpc EXCEPT ![t] = "generating"]
                 /\ UNCHANGED <<tasks, fut, fres, retry_count>>
            ELSE /\ PoolHandleException(t, NoGeneratorMsg)
                 /\ UNCHANGED <<fut, fres>>
       ELSE /\ fres' = [fres EXCEPT ![t] = <<FALSE>>]
            /\ fut' = [fut EXCEPT ![t] = "done"]
            /\ wpc' = [wpc EXCEPT ![t] = "done"]
            /\ UNCHANGED <<tasks, retry_count>>
    /\ UNCHANGED <<config, otherVars, ledgerVars, flagVars, mainVars,
                   historyVars>>

\* self.video_generator(task) returns: the task is marked Completed and
\* self.stats['successful'] += 1 follows
PoolGeneratorReturns(t) ==
    /\ wpc[t] = "generating"
    /\ \E result \in ReturnValues :
         tasks' = update_task_status(tasks, t, COMPLETED, None, result)
    /\ wpc' = [wpc EXCEPT ![t] = "load_successful"]
    /\ UNCHANGED <<config, otherVars, ledgerVars, flagVars, mainVars, fut, fres,
                   retry_count, historyVars>>

\* self.video_generator(task) raises
PoolGeneratorRaises(t) ==
    /\ wpc[t] = "generating"
    /\ \E error_msg \in ErrorMessages : PoolHandleException(t, error_msg)
    /\ UNCHANGED <<config, otherVars, ledgerVars, flagVars, mainVars, fut, fres,
                   historyVars>>

\* `self.stats[key] += 1` of a pool thread, first half: the counter is read
StatsLoad(t) ==
    /\ wpc[t] \in {"load_successful", "load_failed"}
    /\ counter_read' =
         [counter_read EXCEPT ![t] = IF wpc[t] = "load_successful"
                                     THEN stats.successful ELSE stats.failed]
    /\ wpc' = [wpc EXCEPT ![t] = IF wpc[t] = "load_successful"
                                 THEN "store_successful" ELSE "store_failed"]
    /\ UNCHANGED <<queueVars, config, storeVars, musicVars, ttsVars, gateVars,
                   ledgerVars, flagVars, mainVars, fut, fres, retry_count,
                   historyVars>>

\* second half: the value read plus one is stored, then `return True` or
\* `return False`
StatsStore(t) ==
    /\ wpc[t] \in {"store_successful", "store_failed"}
    /\ stats' = IF wpc[t] = "store_successful"
                THEN [stats EXCEPT !.successful = counter_read[t] + 1]
                ELSE [stats EXCEPT !.failed = counter_read[t] + 1]
    /\ fres' = [fres EXCEPT ![t] = <<wpc[t] = "store_successful">>]
    /\ fut' = [fut EXCEPT ![t] = "done"]
    /\ wpc' = [wpc EXCEPT ![t] = "done"]
    /\ UNCHANGED <<queueVars, config, otherVars, ledgerVars, flagVars, pc, batch,
                   idx, yielded, results, retry_count, historyVars>>

\* one iteration of `for future in as_completed(futures)`: future.result()
\* and self.stats['total_processed'] += 1
PoolCollect(t) ==
    /\ pc = "collect"
    /\ t \in as_completed
    /\ yielded' = yielded \cup {t}
    /\ stats' = [stats EXCEPT !.total_processed = @ + 1]
    /\ UNCHANGED <<queueVars, config, otherVars, ledgerVars, flagVars, pc, batch,
                   idx, results, workerVars, historyVars>>

\* every future has been yielded: `return self.stats`
PoolReturn ==
    /\ pc = "collect"
    /\ yielded = Submitted
    /\ pc' = "returned"
    /\ UNCHANGED <<queueVars, config, otherVars, ledgerVars, flagVars, batch, idx,
                   yielded, results, stats, workerVars, historyVars>>

PoolNext ==
    \/ ProcessAllPending
    \/ \E t \in TaskIds : WorkerRun(t)
    \/ \E t \in TaskIds : WorkerBegin(t)
    \/ \E t \in TaskIds : PoolLoop(t)
    \/ \E t \in TaskIds : PoolGeneratorReturns(t)
    \/ \E t \in TaskIds : PoolGeneratorRaises(t)
    \/ \E t \in TaskIds : StatsLoad(t)
    \/ \E t \in TaskIds : StatsStore(t)
    \/ \E t \in TaskIds : PoolCollect(t)
    \/ PoolReturn

PoolSpec == Init /\ [][PoolNext]_vars

\* A batch under any configuration, without shutdown and without a caller
\* of cancel_task, in which every thread keeps running and every invocation
\* of the generator ends
RetrySpec == Init /\ [][DemoNext]_vars /\ DemoFairness

\* ------------------------------------------------------------------------
\* shutdown(wait=True), the default and the call of __exit__:
\* executor.shutdown(wait=True) returns when the threads of the pool have
\* run every submitted future and ended; it takes no timeout
ShutdownJoin ==
    /\ executor_shutdown
    /\ ~shutdown_returned
    /\ \A t \in TaskIds : fut[t] \in {"none", "done"}
    /\ shutdown_returned' = TRUE
    /\ UNCHANGED <<queueVars, config, otherVars, ledgerVars, shutdown_event,
                   executor_shutdown, mainVars, workerVars, historyVars>>

\* A batch of the demo configuration during which shutdown() is called. The
\* threads keep running, but an invocation of the generator need not end.
ShutdownNext ==
    \/ DemoNext
    \/ ShutdownSetEvent
    \/ ShutdownExecutor
    \/ ShutdownJoin

ShutdownFairness ==
    /\ WF_vars(StartBatch)
    /\ WF_vars(ForNext)
    /\ WF_vars(Gate)
    /\ WF_vars(Sleep)
    /\ WF_vars(Submit)
    /\ \A t \in TaskIds :
         /\ WF_vars(WorkerRun(t))
         /\ WF_vars(WorkerBegin(t))
         /\ WF_vars(WorkerLoop(t))
         /\ WF_vars(Collect(t))
    /\ WF_vars(Return)
    /\ WF_vars(ShutdownExecutor)
    /\ WF_vars(ShutdownJoin)

ShutdownSpec == DemoInit /\ [][ShutdownNext]_vars /\ ShutdownFairness

BatchTasks == {batch[i] : i \in 1..Len(batch)}

\* C1: process_batch drains the batch: with terminating invocations, a
\* satisfiable memory bound and no shutdown, eventually process_batch has
\* returned, the dispatcher was admitted for every task of the batch and
\* every task is Completed or Failed.
C1_BatchDrains ==
    <>(/\ pc = "returned"
       /\ \A t \in BatchTasks :
            /\ t \in admitted
            /\ tasks[t].status \in {COMPLETED, FAILED})

\* C2: the state of a job only moves forward along
\* Pending -> Processing -> {Completed, Failed, Cancelled}: a terminal state
\* is never left and Processing never goes back to Pending.
StatusRank(status) ==
    IF status = PENDING THEN 0 ELSE IF status = PROCESSING THEN 1 ELSE 2

C2_MonotoneStatus ==
    [][\A t \in TaskIds :
         /\ StatusRank(tasks'[t].status) >= StatusRank(tasks[t].status)
         /\ tasks[t].status \in Terminal => tasks'[t].status = tasks[t].status
      ]_vars

\* C3: the tasks dispatched to the pool and not yet finished are at most
\* max_concurrent_tasks, every dispatched task was admitted by the gate, and
\* with max_concurrent_tasks = 1 no two invocations overlap.
InFlight == {t \in TaskIds : fut[t] \in {"queued", "running"}}

C3_DispatchBounded ==
    /\ Cardinality(InFlight) <= config.max_concurrent_tasks
    /\ \A t \in TaskIds : fut[t] # "none" => t \in admitted
    /\ config.max_concurrent_tasks = 1 =>
         Cardinality({t \in TaskIds : wpc[t] = "invoking"}) <= 1

\* C4: every admission is released: when process_batch has returned, also
\* after a shutdown request, the ledger is back to its values before the
\* batch (both zero).
C4_LedgerRestored ==
    pc = "returned" => active_tasks = 0 /\ memory_usage = 0

\* C5: a job whose invocation outlasted task_timeout is Failed with the
\* timeout error when the batch, not shut down, has returned.
C5_TimeoutMarksFailed ==
    (pc = "returned" /\ ~shutdown_event) =>
        \A t \in overran :
            /\ tasks[t].status = FAILED
            /\ tasks[t].error_message = TimeoutMsg

\* C6: a task that hit its timeout is attempted once: after an invocation
\* of a task outlasted task_timeout the generator is not invoked for it again.
C6_NoAttemptAfterTimeout ==
    [][\A t \in overran : attempts'[t] = attempts[t]]_vars

\* C7 as stated: the generator is invoked at most retry_times times for a job.
C7_AtMostRetryTimes ==
    \A t \in TaskIds : attempts[t] <= config.retry_times

\* C7 amended: the generator is invoked at most retry_times times for a job
\* when retry_on_error is set and at most once when it is not; every attempt
\* before the current one raised an exception (each raise is counted in
\* retry_count), so a job that succeeds after two raises was attempted
\* exactly 3 times, and the worker records it Completed when that attempt
\* returns.
Succeeded(t) == fut[t] = "done" /\ fres[t] # << >> /\ fres[t][1].success

C7_BoundedRetries ==
    [][\A t \in TaskIds :
         /\ attempts'[t] <= (IF config.retry_on_error
                             THEN config.retry_times ELSE 1)
         /\ ~config.has_generator => attempts'[t] = 0
         /\ config.has_generator =>
              attempts'[t] \in {retry_count'[t], retry_count'[t] + 1}
         /\ wpc'[t] = "invoking" => attempts'[t] = retry_count'[t] + 1
         /\ Succeeded(t)' => attempts'[t] = retry_count'[t] + 1
         /\ (Succeeded(t)' /\ retry_count'[t] = 2) => attempts'[t] = 3
         /\ (~Succeeded(t) /\ Succeeded(t)') => tasks'[t].status = COMPLETED
      ]_vars

\* retry_times = 3, two attempts raised and the third returned
C7_Witness ==
    \E t \in TaskIds :
        /\ config.retry_on_error
        /\ config.retry_times = 3
        /\ Succeeded(t)
        /\ retry_count[t] = 2
        /\ attempts[t] = 3
        /\ tasks[t].status = COMPLETED

\* C8: when the last allowed attempt raises, the job is Failed and its record
\* carries the message of that exception; when an attempt returns, the job is
\* Completed and its record carries the result map of that attempt.
C8_RecordCarriesOutcome ==
    [][\A t \in TaskIds :
         (wpc[t] = "invoking" /\ wpc'[t] = "done") =>
            LET r == fres'[t][1]
            IN IF r.success
               THEN /\ tasks'[t].status = COMPLETED
                    /\ tasks'[t].result = r.result_data
               ELSE /\ tasks'[t].status = FAILED
                    /\ tasks'[t].error_message = r.error_message
      ]_vars

\* C9: a job is Completed only if its run succeeded and produced an output
\* file; a failed run never leaves the job Completed.
C9_CompletedOnlyOnSuccess ==
    \A t \in TaskIds :
        tasks[t].status = COMPLETED => tasks[t].result = generate_video("succeeds")

\* C10: once the shutdown flag is set no further task is submitted to the
\* pool, the task whose dispatcher was waiting for admission included (only a
\* task the gate had admitted before the dispatcher could read the flag again
\* is let through).
C10_NoSubmitAfterShutdown ==
    [][\A t \in TaskIds :
         (shutdown_event /\ fut[t] = "none" /\ fut'[t] # "none") =>
            t \in admitted]_vars

\* no thread is inside a method of the queue
Quiescent == ~crashed /\ \A c \in Threads : qpc[c] = "idle"

\* C11: a job becomes Cancelled only from Pending: whatever the interleaving
\* of cancel_task with the worker that starts the same job, a job that has
\* entered Processing is never recorded Cancelled.
C11_CancelOnlyFromPending ==
    [][\A t \in DOMAIN tasks \cap DOMAIN tasks' :
         (tasks'[t].status = CANCELLED /\ tasks[t].status # CANCELLED) =>
            (tasks[t].status = PENDING /\ ~tasks[t].started_at)]_vars

\* C12: update_task_status calls issued concurrently are serialized: once
\* they have all returned, the persistence file holds the state that each
\* updated job has in memory.
C12_FileReflectsUpdates ==
    (Quiescent /\ \A c \in Threads : qcall[c] = "update_task_status") =>
        \A t \in DOMAIN tasks :
            tasks[t].status # PENDING =>
                /\ file # << >>
                /\ file[1].complete
                /\ t \in DOMAIN file[1].data
                /\ file[1].data[t].status = tasks[t].status

\* C13: after any mutation of the queue, a fresh queue loaded from the
\* persistence file has exactly the jobs in memory, with the same states
\* and timestamps.
C13_ReloadEqualsMemory ==
    Quiescent =>
        IF file = << >> THEN DOMAIN tasks = {}
        ELSE /\ file[1].complete
             /\ DOMAIN file[1].data = DOMAIN tasks
             /\ \A t \in DOMAIN tasks : load_tasks(file)[t] = tasks[t]

\* C14: the persistence file is replaced atomically: a crash during a save
\* leaves the whole old document or the whole new one.
C14_CrashLeavesWholeFile ==
    crashed => IF file = << >> THEN TRUE ELSE file[1].complete

\* C15: two concurrent download_music calls for one URL run a single
\* download: at most one of them is fetching the URL at a time, and a path
\* handed back to a caller is the path of a completely written file.
C15_SingleFlight ==
    /\ \A u \in Urls :
         Cardinality({k \in Callers :
                        dpc[k] \in {"get", "stream"} /\ drec[k].url = u}) <= 1
    /\ \A k \in Callers :
         (dpc[k] = "done" /\ dres[k] # << >>) => disk[dres[k][1]] = "complete"

\* C16: the bytes of a download go to a temporary file, so the final cache
\* path never holds a partly downloaded file, whether the download is still
\* running or was aborted.
C16_NoPartialFileAtCachePath ==
    \A p \in Paths : disk[p] # "partial"

\* C17: every entry of the library index has a local_path that exists on
\* disk, after any sequence of get_music_for_content, expiry and
\* optimize_cache.
C17_EntryFileExists ==
    \A i \in DOMAIN entries : disk[entries[i].local_path] # "absent"

\* C18: on an empty library, the get_music_for_content call that downloads a
\* track leaves its entry with use_count 1 and leaves the library with a
\* local match for the same content and criteria; a call served from the
\* library adds 1 to the use_count of the entry it returns.
C18_ServedCountsAsUse ==
    [][/\ (mpc = "caching" /\ mpc' = "idle" /\ dres[1] # << >>
           /\ entries = << >>) =>
             /\ Len(entries') = 1
             /\ entries'[1].use_count = 1
             /\ _find_in_library(entries', mcontent, mcriteria, now) = 1
       /\ (mpc = "lookup" /\ mpc' = "idle" /\ entries' # entries) =>
             LET local_match ==
                     _find_in_library(entries, mcontent, mcriteria, now)
             IN /\ local_match # 0
                /\ entries'[local_match].use_count =
                       entries[local_match].use_count + 1
      ]_vars

\* C19: when more than max_cache_files entries are left after the expired
\* ones are dropped, optimize_cache removes exactly the excess, the removed
\* entries are the first by (use_count, last_used, downloaded_at) ascending,
\* and at most max_cache_files entries remain.
C19_EvictsFirstInOrder ==
    [][(mpc = "idle" /\ mpc' = "idle" /\ now' = now /\ entries' # entries) =>
         LET before == cleanup_expired_entries(entries, now)
             keptUrls == {entries'[i].url : i \in DOMAIN entries'}
             removed == {i \in DOMAIN before : before[i].url \notin keptUrls}
             Precedes(a, b) ==
                 \/ a.use_count < b.use_count
                 \/ /\ a.use_count = b.use_count
                    /\ a.last_used < b.last_used
                 \/ /\ a.use_count = b.use_count
                    /\ a.last_used = b.last_used
                    /\ a.downloaded_at < b.downloaded_at
         IN Len(before) > MaxCacheFiles =>
              /\ Cardinality(removed) = Len(before) - MaxCacheFiles
              /\ \A i \in removed, j \in DOMAIN before \ removed :
                    ~Precedes(before[j], before[i])
              /\ Len(entries') <= MaxCacheFiles
      ]_vars

\* C20: when speech failed for some sentences of a script and was produced
\* for at least one, generate_video goes on past the subtitle step, and the
\* subtitle segments are, in order, the sentences whose audio was produced.
C20_PartialSpeechProceeds ==
    (npc \in {"video", "done"} /\ audio_paths # << >>) =>
        /\ nresult # << >> => nresult[1].error # "ValueError"
        /\ Len(subtitle_segments) = Len(audio_paths)
        /\ \A j \in DOMAIN subtitle_segments :
              subtitle_segments[j].text = strip(sentences[audio_paths[j]])

\* C21: for n sentences with durations d[1..n], all positive, the subtitle
\* segments start at 0, each lasts its d[i] and starts where the one before
\* ends, segment i carries sentence i without the blanks at its ends and
\* has index i, and the last one ends at the sum of the d[i].
C21_SegmentsPacked ==
    (npc = "video" /\ \A i \in DOMAIN audio_durations : audio_durations[i] > 0)
    =>
    LET n == Len(sentences)
        seg == subtitle_segments
        d == audio_durations
        Blank(t) == \A k \in DOMAIN t : t[k] = " "
        Trimmed(t, sentence) ==
            /\ t = << >> \/ (t[1] # " " /\ t[Len(t)] # " ")
            /\ \E a \in 0..Len(sentence) :
                  /\ a + Len(t) <= Len(sentence)
                  /\ SubSeq(sentence, a + 1, a + Len(t)) = t
                  /\ Blank(SubSeq(sentence, 1, a))
                  /\ Blank(SubSeq(sentence, a + Len(t) + 1, Len(sentence)))
        RECURSIVE Sum(_)
        Sum(k) == IF k = 0 THEN 0 ELSE Sum(k - 1) + d[k]
    IN /\ Len(seg) = n
       /\ Len(d) = n
       /\ n > 0 => seg[1].start_time = 0 /\ seg[n].end_time = Sum(n)
       /\ \A i \in 1..n :
             /\ seg[i].end_time = seg[i].start_time + d[i]
             /\ seg[i].index = i
             /\ Trimmed(seg[i].text, sentences[i])
       /\ \A i \in 1..(n - 1) : seg[i + 1].start_time = seg[i].end_time

\* two sentences with blanks at their ends and positive durations have
\* been turned into segments
C21_Witness ==
    /\ npc = "video"
    /\ Len(subtitle_segments) = 2
    /\ \A i \in DOMAIN audio_durations : audio_durations[i] > 0
    /\ audio_durations[1] # audio_durations[2]
    /\ sentences[1] = <<" ", "a">>
    /\ sentences[2] = <<"a", " ">>

\* C22: add_task with a task_id the queue already holds is rejected: the
\* step leaves every record the queue had (status, timestamps,
\* error_message, result) as it was.
C22_DuplicateAddRejected ==
    [][(\E c \in Threads :
          qpc[c] = "idle" /\ qpc'[c] # "idle" /\ qcall'[c] = "add_task") =>
         \A t \in DOMAIN tasks : t \in DOMAIN tasks' /\ tasks'[t] = tasks[t]
      ]_vars

\* a step in which thread c calls can_start_task
GateRequest(c) ==
    /\ gate_log'[c] # gate_log[c]
    /\ gate_log'[c].call = "can_start_task"

C24_ShutdownReturns ==
    executor_shutdown ~> shutdown_returned

\* C25: when process_batch returns, the successful and the failed counts
\* add up to the number of tasks of the batch and the results hold exactly
\* one TaskResult for each task of the batch, also after a shutdown request.
C25_OneResultPerTask ==
    (pc = "returned" /\ batch # << >>) =>
        /\ stats.successful + stats.failed = Len(batch)
        /\ Len(results) = Len(batch)
        /\ \A t \in BatchTasks :
              Cardinality({i \in DOMAIN results :
                             results[i] # << >> /\ results[i][1].task_id = t}) = 1

\* C26: every job a worker has moved to Processing eventually is Completed
\* or Failed, whatever the retry configuration, and no job is Processing
\* once the batch has returned.
C26_ProcessingEnds ==
    /\ \A t \in TaskIds :
          (tasks[t].status = PROCESSING)
             ~> (tasks[t].status \in {COMPLETED, FAILED})
    /\ [](pc = "returned" => \A t \in TaskIds : tasks[t].status # PROCESSING)

\* C27: once cancel_task has returned True for a task (its status is
\* Cancelled and the call is over), no batch worker starts that task, even
\* when process_batch had read the pending list before the cancellation.
C27_CancelledNeverStarted ==
    [][\A t \in TaskIds :
         (tasks[t].status = CANCELLED /\ qpc[Canceller] = "idle") =>
            ~(wpc[t] = "start" /\ wpc'[t] = "while")]_vars

\* C28: when process_all_pending of the thread-pool BatchProcessor returns
\* after processing n pending tasks, successful + failed = total_processed
\* = n, whatever the interleaving of the pool threads.
C28_PoolCountersAdd ==
    (pc = "returned" /\ batch # << >>) =>
        /\ stats.total_processed = Len(batch)
        /\ stats.successful + stats.failed = stats.total_processed

\* C29: a step of the unreferenced-file cleanup (the disk changes, no
\* download moves and the index stays as it is) leaves in place the file of
\* a download that is in progress and the file of a download that has
\* finished and is not yet recorded in the index.
C29_CleanupSparesDownloads ==
    [][(dpc' = dpc /\ entries' = entries /\ disk' # disk) =>
          \A k \in Callers :
             (\/ dpc[k] = "stream"
              \/ dpc[k] = "done" /\ dres[k] # << >>) =>
                disk'[_generate_local_path(drec[k])]
                    = disk[_generate_local_path(drec[k])]]_vars

\* C30: the file cached for a recommendation comes from the URL of that
\* recommendation: entries of the index with different URLs never have the
\* same local path.
C30_OneFilePerUrl ==
    \A i, j \in DOMAIN entries :
        entries[i].url # entries[j].url =>
            entries[i].local_path # entries[j].local_path

====
